---- MODULE Spec2Model ----
(***************************************************************************)
(* A model of src/index.js of jest-image-snapshot: the matcher             *)
(* toMatchImageSnapshot with its helpers updateSnapshotState, checkResult  *)
(* and createSnapshotIdentifier, the module-level retry ledger timesCalled *)
(* and the interactive review workflow (notification, view prompt, update  *)
(* prompt).                                                                *)
(*                                                                         *)
(* JavaScript runs one synchronous segment at a time. An invocation of the *)
(* async matcher is therefore a sequence of atomic segments separated by   *)
(* its awaits (lines 250, 268 and 283); segments of different invocations  *)
(* interleave. Each action below is one such segment, whole.               *)
(*                                                                         *)
(* Strings are modelled as sequences of words (what lodash kebabCase joins *)
(* with '-'); a test name is the sequence of its '...'-separated segments. *)
(***************************************************************************)
EXTENDS Naturals, Sequences, FiniteSets, Bags, TLC

\* ---------------------------------------------------------------- bounds
\* How many matcher calls a session records in its invocation counters; as many
\* invocations can be in flight (suspended at an await) at once.
MaxCalls == 2
\* The largest value of the jest.retryTimes() signal.
MaxRetryTimes == 1

\* ---------------------------------------------------------------- inputs
\* currentTestName values, each split on '...' as lines 114 and 207 do.
TestNames == { <<"gallery", "renders">>, <<"gallery", "loads">> }

\* customSnapshotIdentifier values: undefined, the literals '' and 'login',
\* a function returning '' and a function returning 'shot'.
Customs ==
  { [type |-> "undefined", val |-> <<>>],
    [type |-> "string", val |-> <<>>],
    [type |-> "string", val |-> <<"login">>],
    [type |-> "function", val |-> <<"empty">>],
    [type |-> "function", val |-> <<"shot">>] }

UpdateModes == {"none", "new", "all"}

\* ---------------------------------------------------------------- state
VARIABLES
  snapshotState,   \* this.snapshotState: matched, added, updated, unmatched, _counters, _updateSnapshot
  timesCalled,     \* the module-level Map of line 26 (the retry ledger)
  RETRY_TIMES,     \* global[Symbol.for('RETRY_TIMES')], parsed
  SKIP_REPORTING,  \* global.UNSTABLE_SKIP_REPORTING
  fsSyncExists,    \* whether fs.syncExists (line 248) is a function: Node's own fs has
                   \* no such member and the call throws a TypeError; TRUE is a host
                   \* whose fs has been given one that tests for existence
  baselineFiles,   \* the baseline snapshot files on storage
  receivedFiles,   \* the received artifact files on storage
  inv,             \* the frames of the matcher invocations suspended at an await, a bag
  settled,         \* what is kept of the call that returned or threw last
  tally,           \* history: the non-negated calls made per test, the outcomes the
                   \* calls have recorded, whether two invocations have overlapped
  rendered         \* the last call of a verdict's message(): what it read and the text
                   \* it returned; the matcher itself never calls message()

vars == << snapshotState, timesCalled, RETRY_TIMES, SKIP_REPORTING, fsSyncExists,
           baselineFiles, receivedFiles, inv, settled, tally, rendered >>

\* ---------------------------------------------------------------- Map
\* Map.prototype.get followed by `|| 0` (an absent key reads as 0).
MapGet(m, k) == IF k \in DOMAIN m THEN m[k] ELSE 0

\* Map.prototype.set: the map with k bound to v. The Map object is changed in place.
MapSet(m, k, v) == [x \in DOMAIN m \cup {k} |-> IF x = k THEN v ELSE m[x]]

EmptyMap == [x \in {} |-> 0]

\* ---------------------------------------------------------------- strings
DigitWords == << "0", "1", "2", "3", "4", "5", "6", "7", "8", "9" >>

\* `${counter}`: the decimal digits of n.
RECURSIVE ToWords(_)
ToWords(n) ==
  IF n < 10 THEN << DigitWords[n + 1] >>
  ELSE ToWords(n \div 10) \o << DigitWords[(n % 10) + 1] >>

\* dirName[1] of line 115; undefined prints as 'undefined' in the template of line 118.
ItTitle(currentTestName) ==
  IF Len(currentTestName) >= 2 THEN << currentTestName[2] >> ELSE << "undefined" >>

\* dirName[0] of line 208.
DescribeName(currentTestName) == currentTestName[1]

\* kebabCase(`${path.basename(testPath)}-${currentTestName}-${counter}`), line 116.
DefaultIdentifier(currentTestName, counter) ==
  << "index", "spec", "js" >> \o currentTestName \o ToWords(counter)

\* JavaScript truthiness of customSnapshotIdentifier: a function, or a non-empty string.
Truthy(custom) ==
  \/ custom.type = "function"
  \/ custom.type = "string" /\ custom.val # <<>>

\* The call of the user's function, lines 121-123.
CustomRes(custom, currentTestName, counter, defaultIdentifier) ==
  IF custom.val = << "shot" >> THEN << "shot" >> ELSE <<>>

\* path.join(dir, kebabCase(describeName)) with the identifier: one key for the
\* baseline file (line 213) and one for the received file (lines 248 and 285).
SnapshotPath(describeName, snapshotIdentifier) ==
  [dir |-> describeName, file |-> snapshotIdentifier]

\* ---------------------------------------------------------------- results
\* The objects the comparison returns: { added: true }, { updated: true },
\* { pass: true, ... } and { pass: false, ... }; an absent field reads as FALSE.
Added == [updated |-> FALSE, added |-> TRUE, pass |-> FALSE]
Updated == [updated |-> TRUE, added |-> FALSE, pass |-> FALSE]
ComparedPass == [updated |-> FALSE, added |-> FALSE, pass |-> TRUE]
ComparedFail == [updated |-> FALSE, added |-> FALSE, pass |-> FALSE]
NoResult == [updated |-> FALSE, added |-> FALSE, pass |-> FALSE, none |-> TRUE]

\* ---------------------------------------------------------------- helpers of index.js
\* updateSnapshotState as it would be without the test of line 33.
UpdateSnapshotStateUnguarded(originalSnapshotState, partialSnapshotState) ==
  [k \in DOMAIN originalSnapshotState |->
     IF k \in DOMAIN partialSnapshotState
       THEN partialSnapshotState[k]
       ELSE originalSnapshotState[k]]

\* updateSnapshotState, lines 32-37; lodash merge overwrites the fields of the partial state.
UpdateSnapshotState(originalSnapshotState, partialSnapshotState) ==
  IF SKIP_REPORTING
    THEN originalSnapshotState
    ELSE [k \in DOMAIN originalSnapshotState |->
            IF k \in DOMAIN partialSnapshotState
              THEN partialSnapshotState[k]
              ELSE originalSnapshotState[k]]

\* RecordInvocation as it would be if the suppress-reporting flag also held back
\* the Map.set of line 197.
RecordInvocationSuppressible(state, currentTestName) ==
  IF SKIP_REPORTING
    THEN state
    ELSE [state EXCEPT !._counters =
            MapSet(state._counters, currentTestName,
                   MapGet(state._counters, currentTestName) + 1)]

\* RecordInvocation as it would be if line 197 came after the comparison: the
\* resolver reads the counter before this call has been counted.
RecordInvocationLate(state, currentTestName) == state

\* RecordInvocation as it would be if line 197 wrote 1 instead of the counter
\* it has just read plus one: the record of an earlier invocation is lost.
RecordInvocationOverwriting(state, currentTestName) ==
  UpdateSnapshotState([state EXCEPT !._counters = MapSet(@, currentTestName, 1)],
                      [_counters |-> MapSet(state._counters, currentTestName, 1)])

\* Line 197. The argument is evaluated first: _counters.set(...) changes the Map
\* that snapshotState._counters refers to and returns that same Map, which
\* updateSnapshotState is then given.
RecordInvocation(state, currentTestName) ==
  LET counters == MapSet(state._counters, currentTestName,
                         MapGet(state._counters, currentTestName) + 1)
      mutated == [state EXCEPT !._counters = counters]
  IN UpdateSnapshotState(mutated, [_counters |-> counters])

\* createSnapshotIdentifier as it would be if line 135 came before the test of
\* line 133: the ledger is written before the missing identifier is reported.
CreateSnapshotIdentifierCountingFirst(retryTimes, currentTestName, customSnapshotIdentifier, state, ledger) ==
  LET counter == MapGet(state._counters, currentTestName)
      defaultIdentifier == DefaultIdentifier(currentTestName, counter)
      isFunction == customSnapshotIdentifier.type = "function"
      customRes == CustomRes(customSnapshotIdentifier, currentTestName, counter,
                             defaultIdentifier)
      snapshotIdentifier ==
        IF isFunction
          THEN (IF customRes # <<>> THEN customRes ELSE defaultIdentifier)
          ELSE (IF Truthy(customSnapshotIdentifier)
                  THEN customSnapshotIdentifier.val
                  ELSE ItTitle(currentTestName) \o << "snap" >>)
      throws126 == isFunction /\ retryTimes # 0 /\ customRes = <<>>
      throws133 == retryTimes # 0 /\ ~Truthy(customSnapshotIdentifier)
      counted == IF retryTimes # 0
                   THEN MapSet(ledger, snapshotIdentifier,
                               MapGet(ledger, snapshotIdentifier) + 1)
                   ELSE ledger
  IN IF throws126
       THEN [threw |-> TRUE, snapshotIdentifier |-> <<>>, timesCalled |-> ledger]
     ELSE IF throws133
       THEN [threw |-> TRUE, snapshotIdentifier |-> <<>>, timesCalled |-> counted]
     ELSE [threw |-> FALSE, snapshotIdentifier |-> snapshotIdentifier,
           timesCalled |-> counted]

\* createSnapshotIdentifier, lines 106-139, with the ledger it reads and writes.
\* threw is TRUE when line 126 or line 133 throws.
CreateSnapshotIdentifier(retryTimes, currentTestName, customSnapshotIdentifier, state, ledger) ==
  LET counter == MapGet(state._counters, currentTestName)
      itTitle == ItTitle(currentTestName)
      defaultIdentifier == DefaultIdentifier(currentTestName, counter)
      isFunction == customSnapshotIdentifier.type = "function"
      customRes == CustomRes(customSnapshotIdentifier, currentTestName, counter,
                             defaultIdentifier)
      snapshotIdentifier ==
        IF isFunction
          THEN (IF customRes # <<>> THEN customRes ELSE defaultIdentifier)
          ELSE (IF Truthy(customSnapshotIdentifier)
                  THEN customSnapshotIdentifier.val
                  ELSE itTitle \o << "snap" >>)
      throws126 == isFunction /\ retryTimes # 0 /\ customRes = <<>>
      throws133 == retryTimes # 0 /\ ~Truthy(customSnapshotIdentifier)
  IN IF throws126 \/ throws133
       THEN [threw |-> TRUE, snapshotIdentifier |-> <<>>, timesCalled |-> ledger]
       ELSE [threw |-> FALSE,
             snapshotIdentifier |-> snapshotIdentifier,
             timesCalled |->
               IF retryTimes # 0
                 THEN MapSet(ledger, snapshotIdentifier,
                             MapGet(ledger, snapshotIdentifier) + 1)
                 ELSE ledger]

\* checkResult as it would be if line 69 did not test the retries: every failing
\* comparison is recorded as unmatched.
CheckResultCountingEveryFailure(result, state, retryTimes, snapshotIdentifier, ledger) ==
  IF result.updated
    THEN [snapshotState |-> UpdateSnapshotState(state, [updated |-> state.updated + 1]),
          pass |-> TRUE, message |-> "empty"]
  ELSE IF result.added
    THEN [snapshotState |-> UpdateSnapshotState(state, [added |-> state.added + 1]),
          pass |-> TRUE, message |-> "empty"]
  ELSE IF result.pass
    THEN [snapshotState |-> UpdateSnapshotState(state, [matched |-> state.matched + 1]),
          pass |-> TRUE, message |-> "empty"]
  ELSE [snapshotState |-> UpdateSnapshotState(state, [unmatched |-> state.unmatched + 1]),
        pass |-> FALSE, message |-> "failure"]

\* checkResult, lines 39-104: the state it leaves and the verdict it returns.
\* ledger is timesCalled as it stands when checkResult runs (line 68).
CheckResult(result, state, retryTimes, snapshotIdentifier, ledger) ==
  IF result.updated
    THEN [snapshotState |-> UpdateSnapshotState(state, [updated |-> state.updated + 1]),
          pass |-> TRUE, message |-> "empty"]
  ELSE IF result.added
    THEN [snapshotState |-> UpdateSnapshotState(state, [added |-> state.added + 1]),
          pass |-> TRUE, message |-> "empty"]
  ELSE IF result.pass
    THEN [snapshotState |-> UpdateSnapshotState(state, [matched |-> state.matched + 1]),
          pass |-> TRUE, message |-> "empty"]
  ELSE LET currentRun == MapGet(ledger, snapshotIdentifier)
       IN [snapshotState |->
             IF retryTimes = 0 \/ currentRun > retryTimes
               THEN UpdateSnapshotState(state, [unmatched |-> state.unmatched + 1])
               ELSE state,
           pass |-> FALSE, message |-> "failure"]

\* Line 80.
SupportedInlineTerms == {"iTerm.app", "WezTerm"}

\* The test of line 84: inline dumping was requested and the terminal takes
\* inline images. `'ENABLE_INLINE_DIFF' in process.env` tests for presence.
InlineTaken(opts, env) ==
  opts.dumpInlineDiffToConsole
    /\ (env.TERM_PROGRAM \in SupportedInlineTerms \/ env.ENABLE_INLINE_DIFF)

\* Message as it would be if line 91 tested dumpDiffToConsole alone.
MessagePlainOnly(result, opts, env) ==
  << IF result.diffSize /\ ~opts.allowSizeMismatch THEN "size" ELSE "ratio", "see diff" >>
  \o (IF InlineTaken(opts, env) THEN << "inline image" >>
      ELSE IF opts.dumpDiffToConsole THEN << "data-URI" >>
      ELSE << >>)

\* The closure `message` of a failing verdict, lines 73-96: the parts of the
\* text it returns, in order. It reads process.env when it is called.
Message(result, opts, env) ==
  << IF result.diffSize /\ ~opts.allowSizeMismatch THEN "size" ELSE "ratio", "see diff" >>
  \o (IF InlineTaken(opts, env) THEN << "inline image" >>
      ELSE IF opts.dumpDiffToConsole \/ opts.dumpInlineDiffToConsole THEN << "data-URI" >>
      ELSE << >>)

\* The guard of line 195 as it would be if the matcher did not test isNot.
NegatedIgnored(isNot) == FALSE

\* The guard of line 195.
Negated(isNot) == isNot

\* The guard of line 216 as it would be if it tested for the update mode `all`.
MissingBaselineInModeAll(state, baselineSnapshotPath, files) ==
  state._updateSnapshot = "all" /\ baselineSnapshotPath \notin files

\* The guard of line 216.
MissingBaseline(state, baselineSnapshotPath, files) ==
  state._updateSnapshot = "none" /\ baselineSnapshotPath \notin files

\* ---------------------------------------------------------------- collaborators
\* The comparison engine (./diff-snapshot, not part of src/): no baseline: one is
\* written, Added; update mode `all` and a mismatch: the baseline is rewritten,
\* Updated; otherwise Compared, and a failing comparison writes the received
\* artifact when storeReceivedOnFailure is set. match is the engine's pixel verdict.
ImageToSnapshot(baselineExists, updateSnapshot, storeReceivedOnFailure, match) ==
  IF ~baselineExists
    THEN [result |-> Added, writesBaseline |-> TRUE, writesReceived |-> FALSE]
  ELSE IF match
    THEN [result |-> ComparedPass, writesBaseline |-> FALSE, writesReceived |-> FALSE]
  ELSE IF updateSnapshot
    THEN [result |-> Updated, writesBaseline |-> TRUE, writesReceived |-> FALSE]
  ELSE [result |-> ComparedFail, writesBaseline |-> FALSE,
        writesReceived |-> storeReceivedOnFailure]

\* ---------------------------------------------------------------- frames
\* The frame of one invocation: where it stands (pc), its locals, and what it
\* has done so far. pc is idle (nothing has run), notify, view or update
\* (suspended at the await of line 250, 268 or 283), returned or threw. The
\* suspended frames are the bag `inv`: invocations have no identity beyond
\* their frames. A frame that returns or throws leaves `inv` and is handed to
\* `settled`.
IdleFrame ==
  [pc |-> "idle",
   describeName |-> "",       \* the describe block, which names the directories (lines 208-211)
   snapshotIdentifier |-> <<>>,
   attempt |-> 0,             \* history: the ledger entry line 135 wrote for this call
   result |-> NoResult,
   compared |-> FALSE,        \* imageToSnapshot was called (line 228)
   entered |-> FALSE,         \* the branch of line 248 was taken
   viewAction |-> FALSE,      \* the value the race of line 268 resolved to
   viewStopped |-> FALSE,     \* view.stop() was called (line 272)
   opened |-> FALSE,          \* childProc.exec was called (line 270)
   updateAction |-> FALSE,    \* the value the race of line 283 resolved to
   updateStopped |-> FALSE,   \* update.stop() was called (line 288)
   pass |-> FALSE, message |-> "none", error |-> "none"]

\* How a prompt race ends: the user confirms, the user declines, or the timer
\* wins. The race resolves to true in the first case and to false in the others.
RaceOutcomes == {"confirmed", "declined", "timeout"}

\* RaceValue as it would be if every race resolved to true.
RaceValueAlwaysTrue(outcome) == TRUE

\* The value of `await Promise.race([timeout, prompt])`, lines 268 and 283.
RaceValue(outcome) == outcome = "confirmed"

\* A new RunState of the test runner, in update mode `mode`.
NewSnapshotState(mode) ==
  [matched |-> 0, added |-> 0, updated |-> 0, unmatched |-> 0,
   _counters |-> EmptyMap, _updateSnapshot |-> mode]

\* Baselines accepted by earlier sessions: those of the test 'gallery...renders'
\* under its default name of line 118 and under the literal 'login'.
StoredBaselines ==
  { SnapshotPath("gallery", i) :
      i \in { << "renders", "snap" >>, << "login" >> } }

\* Nothing has been called yet.
NoTally ==
  [calls |-> EmptyMap, matched |-> 0, added |-> 0, updated |-> 0, unmatched |-> 0,
   overlapped |-> FALSE]

\* message() has not been called.
NotRendered == [called |-> FALSE]

Init ==
  /\ snapshotState \in { NewSnapshotState(m) : m \in UpdateModes }
  /\ timesCalled = EmptyMap
  /\ RETRY_TIMES \in 0..MaxRetryTimes
  /\ SKIP_REPORTING \in BOOLEAN
  /\ fsSyncExists \in BOOLEAN
  /\ baselineFiles = StoredBaselines
  /\ receivedFiles = {}
  /\ inv = EmptyBag
  /\ settled = IdleFrame
  /\ tally = NoTally
  /\ rendered = NotRendered

\* ---------------------------------------------------------------- the matcher
\* What a segment of an invocation leaves: its frame and the shared state.
Outcome(frame, state, ledger, baselines, received) ==
  [frame |-> frame, snapshotState |-> state, timesCalled |-> ledger,
   baselineFiles |-> baselines, receivedFiles |-> received]

\* Lines 248-250 and 292, once imageToSnapshot has returned `engine`: the
\* TypeError of line 248, the await of line 250, or checkResult and the return.
\* `named` is the frame so far, `counted` the RunState after line 197,
\* `resolved` what line 199 resolved, `path` the file the identifier names.
AfterComparison(named, counted, resolved, engine, path) ==
  LET baselines == IF engine.writesBaseline THEN baselineFiles \cup {path} ELSE baselineFiles
      received == IF engine.writesReceived THEN receivedFiles \cup {path} ELSE receivedFiles
      ran == [named EXCEPT !.result = engine.result, !.compared = TRUE]
      checked == CheckResult(engine.result, counted, RETRY_TIMES,
                             resolved.snapshotIdentifier, resolved.timesCalled)
  IN IF ~fsSyncExists
       THEN Outcome([ran EXCEPT !.pc = "threw", !.error = "syncExists"],
                    counted, resolved.timesCalled, baselines, received)
     ELSE IF path \in received
       THEN Outcome([ran EXCEPT !.pc = "notify", !.entered = TRUE],
                    counted, resolved.timesCalled, baselines, received)
     ELSE Outcome([ran EXCEPT !.pc = "returned", !.pass = checked.pass,
                              !.message = checked.message],
                  checked.snapshotState, resolved.timesCalled, baselines, received)

\* Lines 199-246, once createSnapshotIdentifier has returned or thrown: the throw
\* of line 126 or 133, the return of line 217, or the call of imageToSnapshot.
AfterResolution(currentTestName, storeReceivedOnFailure, match, counted, resolved, path) ==
  LET frame == [IdleFrame EXCEPT !.describeName = DescribeName(currentTestName)]
      named == [frame EXCEPT !.snapshotIdentifier = resolved.snapshotIdentifier,
                             !.attempt = MapGet(resolved.timesCalled,
                                                resolved.snapshotIdentifier)]
  IN IF resolved.threw
       THEN Outcome([frame EXCEPT !.pc = "threw", !.error = "identifier"],
                    counted, resolved.timesCalled, baselineFiles, receivedFiles)
     ELSE IF MissingBaseline(counted, path, baselineFiles)
       THEN Outcome([named EXCEPT !.pc = "returned", !.pass = FALSE,
                                  !.message = "not written"],
                    counted, resolved.timesCalled, baselineFiles, receivedFiles)
     ELSE AfterComparison(named, counted, resolved,
                          ImageToSnapshot(path \in baselineFiles,
                                          counted._updateSnapshot = "all",
                                          storeReceivedOnFailure, match),
                          path)

\* Lines 197-213, once line 197 has recorded the invocation: the identifier is
\* resolved and names the baseline file.
AfterCounting(currentTestName, customSnapshotIdentifier, storeReceivedOnFailure, match, counted, resolved) ==
  AfterResolution(currentTestName, storeReceivedOnFailure, match, counted, resolved,
                  SnapshotPath(DescribeName(currentTestName), resolved.snapshotIdentifier))

\* The frame and the shared state after the first synchronous segment of
\* toMatchImageSnapshot, lines 183-250: up to the throw of line 195, 126/133 or
\* 248, the return of line 217, the return of line 292, or the await of line 250.
FirstSegment(isNot, currentTestName, customSnapshotIdentifier, storeReceivedOnFailure, match) ==
  IF Negated(isNot)
    THEN Outcome([IdleFrame EXCEPT !.pc = "threw", !.error = "not"],
                 snapshotState, timesCalled, baselineFiles, receivedFiles)
    ELSE AfterCounting(currentTestName, customSnapshotIdentifier, storeReceivedOnFailure,
                       match, RecordInvocation(snapshotState, currentTestName),
                       CreateSnapshotIdentifier(RETRY_TIMES, currentTestName,
                                                customSnapshotIdentifier,
                                                RecordInvocation(snapshotState,
                                                                 currentTestName),
                                                timesCalled))

\* The call of this frame has returned or thrown.
Settled(frame) == frame.pc \in {"returned", "threw"}

\* The suspended frames after one of them, `frame`, has run a segment that left
\* it as `next`; a call that starts has no frame among them yet.
Resume(frames, frame, next) ==
  LET others == IF frame.pc = "idle" THEN frames ELSE frames (-) SetToBag({frame})
  IN IF Settled(next) THEN others ELSE others (+) SetToBag({next})

\* What is kept of a frame once its call has settled: how it ended, the verdict
\* or the error, and what it did; its locals are gone.
Settlement(frame) ==
  [frame EXCEPT !.describeName = "", !.snapshotIdentifier = <<>>, !.attempt = 0,
                !.viewAction = FALSE, !.viewStopped = FALSE, !.opened = FALSE]

\* The last settled call after a frame has run a segment.
Hand(frame) == IF Settled(frame) THEN Settlement(frame) ELSE settled

\* The receiver and arguments of a call, with the engine's pixel verdict. A
\* negated call throws before it reads any of the others, and
\* storeReceivedOnFailure is read only when the images do not match.
CallArguments ==
  { [isNot |-> FALSE, currentTestName |-> t, customSnapshotIdentifier |-> c,
     storeReceivedOnFailure |-> e[1], match |-> e[2]] :
      t \in TestNames, c \in Customs,
      e \in { << TRUE, TRUE >>, << TRUE, FALSE >>, << FALSE, FALSE >> } }
  \cup
  { [isNot |-> TRUE, currentTestName |-> t, customSnapshotIdentifier |-> c,
     storeReceivedOnFailure |-> TRUE, match |-> TRUE] :
      t \in { << "gallery", "renders" >> }, c \in { [type |-> "undefined", val |-> <<>>] } }

\* The invocations the per-test counters have recorded, over all tests.
RECURSIVE SumOver(_, _)
SumOver(m, keys) ==
  IF keys = {} THEN 0
  ELSE LET k == CHOOSE x \in keys : TRUE IN m[k] + SumOver(m, keys \ {k})

Recorded(counters) == SumOver(counters, DOMAIN counters)

\* The session has calls left to make.
CanCall == Recorded(snapshotState._counters) < MaxCalls

\* The outcome a call that ends with `frame` has recorded in the RunState, the
\* ledger being `ledger`: none when it raised, returned before the comparison or
\* reporting is suppressed; otherwise Updated, Added, a passing comparison, or a
\* failing comparison with retries disabled or exhausted.
Recording(frame, ledger) ==
  IF SKIP_REPORTING \/ frame.pc # "returned" \/ ~frame.compared THEN "none"
  ELSE IF frame.result = Updated THEN "updated"
  ELSE IF frame.result = Added THEN "added"
  ELSE IF frame.result = ComparedPass THEN "matched"
  ELSE IF RETRY_TIMES = 0 \/ MapGet(ledger, frame.snapshotIdentifier) > RETRY_TIMES
    THEN "unmatched"
  ELSE "none"

\* The tally after a call of test currentTestName has run its first segment.
TallyCall(t, isNot, currentTestName, frames) ==
  [t EXCEPT !.calls = IF isNot THEN @
                      ELSE MapSet(@, currentTestName, MapGet(@, currentTestName) + 1),
            !.overlapped = @ \/ BagCardinality(frames) >= 2]

\* The tally after a call has recorded `kind`.
TallyOutcome(t, kind) == IF kind = "none" THEN t ELSE [t EXCEPT ![kind] = @ + 1]

\* A call of the matcher: lines 162-250 (and 292 when the workflow is not entered).
ToMatchImageSnapshot ==
  /\ CanCall
  /\ \E args \in CallArguments :
       \E after \in { FirstSegment(args.isNot, args.currentTestName,
                                    args.customSnapshotIdentifier,
                                    args.storeReceivedOnFailure, args.match) } :
          /\ inv' = Resume(inv, IdleFrame, after.frame)
          /\ settled' = Hand(after.frame)
          /\ snapshotState' = after.snapshotState
          /\ timesCalled' = after.timesCalled
          /\ baselineFiles' = after.baselineFiles
          /\ receivedFiles' = after.receivedFiles
          /\ tally' = TallyOutcome(TallyCall(tally, args.isNot, args.currentTestName,
                                             Resume(inv, IdleFrame, after.frame)),
                                   Recording(after.frame, after.timesCalled))
  /\ UNCHANGED << RETRY_TIMES, SKIP_REPORTING, fsSyncExists, rendered >>

\* AfterNotify as it would be if notify returned a promise that rejects when
\* the notification cannot be delivered: the await of line 250 rethrows.
AfterNotifyRejecting(frame, delivered) ==
  IF delivered
    THEN [frame EXCEPT !.pc = "view"]
    ELSE [frame EXCEPT !.pc = "threw", !.error = "notify"]

\* The frame after the await of line 250, lines 250-268. notify returns the
\* notifier itself, so the await resumes whether or not the notification was
\* delivered; an error goes to the callback, and none is passed.
AfterNotify(frame, delivered) == [frame EXCEPT !.pc = "view"]

\* The await of line 250 resumes: lines 258-268, up to the await of the view race.
Notified(frame) ==
  /\ frame.pc = "notify"
  /\ \E delivered \in BOOLEAN :
       inv' = Resume(inv, frame, AfterNotify(frame, delivered))
  /\ UNCHANGED << snapshotState, timesCalled, RETRY_TIMES, SKIP_REPORTING, fsSyncExists,
                  baselineFiles, receivedFiles, settled, tally, rendered >>

\* AfterView as it would be if view.stop() followed the if of lines 269-273
\* instead of being its else branch.
AfterViewAlwaysStops(frame, outcome, launched) ==
  LET viewAction == RaceValue(outcome)
  IN [frame EXCEPT !.pc = "update", !.viewAction = viewAction, !.opened = viewAction,
                   !.viewStopped = TRUE]

\* The frame after the view race has ended with `outcome`, lines 268-283.
\* `launched` tells whether the command of line 270 starts the viewer: exec
\* reports a failure to its callback, and none is passed.
AfterView(frame, outcome, launched) ==
  LET viewAction == RaceValue(outcome)
  IN IF viewAction
       THEN [frame EXCEPT !.pc = "update", !.viewAction = viewAction, !.opened = TRUE]
       ELSE [frame EXCEPT !.pc = "update", !.viewAction = viewAction,
                          !.viewStopped = TRUE]

\* The race of line 268 ends: lines 268-283, up to the await of the update race.
ViewRace(frame) ==
  /\ frame.pc = "view"
  /\ \E outcome \in RaceOutcomes, launched \in BOOLEAN :
       inv' = Resume(inv, frame, AfterView(frame, outcome, launched))
  /\ UNCHANGED << snapshotState, timesCalled, RETRY_TIMES, SKIP_REPORTING, fsSyncExists,
                  baselineFiles, receivedFiles, settled, tally, rendered >>

\* AfterUpdate as it would be if line 286 were missing: the file is renamed but
\* the failing result is still the one classified.
AfterUpdateNotRecast(frame, outcome) ==
  LET path == SnapshotPath(frame.describeName, frame.snapshotIdentifier)
      updateAction == RaceValue(outcome)
      checked == CheckResult(frame.result, snapshotState, RETRY_TIMES,
                             frame.snapshotIdentifier, timesCalled)
      raced == [frame EXCEPT !.updateAction = updateAction]
  IN IF updateAction /\ path \notin receivedFiles
       THEN [frame |-> [raced EXCEPT !.pc = "threw", !.error = "rename"],
             snapshotState |-> snapshotState,
             baselineFiles |-> baselineFiles, receivedFiles |-> receivedFiles]
     ELSE [frame |-> [raced EXCEPT !.pc = "returned", !.updateStopped = ~updateAction,
                                   !.pass = checked.pass, !.message = checked.message],
           snapshotState |-> checked.snapshotState,
           baselineFiles |-> IF updateAction THEN baselineFiles \cup {path}
                                             ELSE baselineFiles,
           receivedFiles |-> IF updateAction THEN receivedFiles \ {path}
                                             ELSE receivedFiles]

\* The frame and the shared state after the update race has ended with
\* `outcome`, lines 283-301. fs.renameSync throws when the received file is gone.
AfterUpdate(frame, outcome) ==
  LET path == SnapshotPath(frame.describeName, frame.snapshotIdentifier)
      updateAction == RaceValue(outcome)
      result == IF updateAction THEN Updated ELSE frame.result
      checked == CheckResult(result, snapshotState, RETRY_TIMES, frame.snapshotIdentifier,
                             timesCalled)
      raced == [frame EXCEPT !.updateAction = updateAction]
  IN IF updateAction /\ path \notin receivedFiles
       THEN [frame |-> [raced EXCEPT !.pc = "threw", !.error = "rename"],
             snapshotState |-> snapshotState,
             baselineFiles |-> baselineFiles, receivedFiles |-> receivedFiles]
     ELSE [frame |-> [raced EXCEPT !.pc = "returned", !.result = result,
                                   !.updateStopped = ~updateAction,
                                   !.pass = checked.pass, !.message = checked.message],
           snapshotState |-> checked.snapshotState,
           baselineFiles |-> IF updateAction THEN baselineFiles \cup {path}
                                             ELSE baselineFiles,
           receivedFiles |-> IF updateAction THEN receivedFiles \ {path}
                                             ELSE receivedFiles]

\* The race of line 283 ends: lines 283-301, to the return of line 292.
UpdateRace(frame) ==
  /\ frame.pc = "update"
  /\ \E outcome \in RaceOutcomes :
       \E after \in { AfterUpdate(frame, outcome) } :
          /\ inv' = Resume(inv, frame, after.frame)
          /\ settled' = Hand(after.frame)
          /\ snapshotState' = after.snapshotState
          /\ baselineFiles' = after.baselineFiles
          /\ receivedFiles' = after.receivedFiles
          /\ tally' = TallyOutcome(tally, Recording(after.frame, timesCalled))
  /\ UNCHANGED << timesCalled, RETRY_TIMES, SKIP_REPORTING, fsSyncExists, rendered >>

Next ==
  \/ ToMatchImageSnapshot
  \/ \E frame \in BagToSet(inv) :
       \/ Notified(frame)
       \/ ViewRace(frame)
       \/ UpdateRace(frame)

Spec == Init /\ [][Next]_vars

\* A segment of some suspended invocation runs.
Workflow ==
  \E frame \in BagToSet(inv) : Notified(frame) \/ ViewRace(frame) \/ UpdateRace(frame)

\* The event loop resumes a suspended invocation once what it awaits has
\* settled: notify returns at once (line 250), and each prompt races a
\* 60-second timer that always fires (lines 260-262 and 275-277).
FairSpec == Spec /\ WF_vars(Workflow)

\* ---------------------------------------------------------------- the failure message
\* What message() depends on: the comparison result, the options of the call,
\* and the environment of the process.
FailingResults == [diffSize : BOOLEAN]
DumpOptions ==
  [dumpDiffToConsole : BOOLEAN, dumpInlineDiffToConsole : BOOLEAN, allowSizeMismatch : BOOLEAN]
Environments ==
  [TERM_PROGRAM : {"iTerm.app", "WezTerm", "Apple_Terminal", "undefined"},
   ENABLE_INLINE_DIFF : BOOLEAN]

\* The test runner calls message() of a failing verdict.
RenderMessage ==
  /\ \E result \in FailingResults, opts \in DumpOptions, env \in Environments :
       rendered' = [called |-> TRUE, result |-> result, opts |-> opts, env |-> env,
                    text |-> Message(result, opts, env)]
  /\ UNCHANGED << snapshotState, timesCalled, RETRY_TIMES, SKIP_REPORTING, fsSyncExists,
                  baselineFiles, receivedFiles, inv, settled, tally >>

MessageNext == RenderMessage

\* The message closure on its own, over every result, option and environment.
MessageSpec == Init /\ [][MessageNext]_vars

\* ---------------------------------------------------------------- vocabulary of the claims
\* The four outcome counters of a RunState.
Counters(state) == << state.matched, state.added, state.updated, state.unmatched >>

\* Every receiver and argument list of a call.
AllArguments ==
  { [isNot |-> n, currentTestName |-> t, customSnapshotIdentifier |-> c,
     storeReceivedOnFailure |-> s, match |-> m] :
      n \in BOOLEAN, t \in TestNames, c \in Customs, s \in BOOLEAN, m \in BOOLEAN }

\* The calls the session can make next: every argument list while it has calls
\* left, none after that.
NextCalls == IF CanCall THEN AllArguments ELSE {}

\* What a call with these arguments does in its first segment, from the current state.
Call(args) ==
  FirstSegment(args.isNot, args.currentTestName, args.customSnapshotIdentifier,
               args.storeReceivedOnFailure, args.match)

\* What line 199 resolves for a call with these arguments, from the current state.
Resolution(args) ==
  CreateSnapshotIdentifier(RETRY_TIMES, args.currentTestName, args.customSnapshotIdentifier,
                           RecordInvocation(snapshotState, args.currentTestName), timesCalled)

\* The baseline file such a call addresses (line 213).
BaselineOf(args) ==
  SnapshotPath(DescribeName(args.currentTestName), Resolution(args).snapshotIdentifier)

\* The call is not negated, its identifier resolves, the update mode is `none`
\* and its baseline file does not exist.
BaselineMissing(args) ==
  /\ ~args.isNot
  /\ snapshotState._updateSnapshot = "none"
  /\ ~Resolution(args).threw
  /\ BaselineOf(args) \notin baselineFiles

\* This step is a call that returned or threw in its first segment.
SettlesAtOnce == inv' = inv /\ vars' # vars

\* The invocations suspended in the review workflow, by their frames.
InWorkflow == BagToSet(inv)

\* This step is the last segment of the invocation with this frame: its update
\* race ends and the call returns or throws.
SettlesFromWorkflow(frame) ==
  frame.pc = "update" /\ inv' = inv (-) SetToBag({frame})

\* ---------------------------------------------------------------- C1
\* What C1 says of an attempt whose ledger count is currentRun: `unmatched` is
\* left alone while currentRun <= retryTimes and grows by one beyond it.
UnmatchedAsClaimed(currentRun) ==
  IF currentRun <= RETRY_TIMES
    THEN snapshotState'.unmatched = snapshotState.unmatched
    ELSE snapshotState'.unmatched = snapshotState.unmatched + 1

\* The identifiers whose ledger entry this step has incremented.
Attempted == { k \in DOMAIN timesCalled' : MapGet(timesCalled, k) # timesCalled'[k] }

\* C1, as stated: with retryTimes >= 1 (and reporting not suppressed), every
\* attempt whose comparison fails and in which no update is confirmed leaves
\* `unmatched` unchanged while its ledger count is at most retryTimes, and adds
\* exactly one to it once the count exceeds retryTimes. The attempt settles
\* either in its first segment or when its update race ends.
C1_UnmatchedDeferredUntilRetriesExhausted ==
  [][ (RETRY_TIMES >= 1 /\ ~SKIP_REPORTING) =>
        /\ (SettlesAtOnce /\ settled'.compared /\ settled'.result = ComparedFail) =>
             \A k \in Attempted : UnmatchedAsClaimed(timesCalled'[k])
        /\ \A frame \in InWorkflow :
             (/\ SettlesFromWorkflow(frame)
              /\ frame.result = ComparedFail
              /\ ~settled'.updateAction) =>
               UnmatchedAsClaimed(MapGet(timesCalled, frame.snapshotIdentifier))
    ]_vars

\* ---------------------------------------------------------------- C2
\* The received file of a suspended invocation.
ReceivedOf(frame) == SnapshotPath(frame.describeName, frame.snapshotIdentifier)

\* C2, as stated: whenever an update race ends confirmed, the call returns
\* pass = true with the result recast to Updated, the received file has been
\* moved onto the baseline path, `updated` has grown by exactly one and
\* `unmatched` has not changed.
C2_ConfirmedUpdateCountsAsUpdated ==
  [][ \A frame \in InWorkflow :
        (SettlesFromWorkflow(frame) /\ settled'.updateAction) =>
          /\ settled'.pc = "returned" /\ settled'.pass /\ settled'.result = Updated
          /\ ReceivedOf(frame) \notin receivedFiles'
          /\ ReceivedOf(frame) \in baselineFiles'
          /\ snapshotState'.updated = snapshotState.updated + 1
          /\ snapshotState'.unmatched = snapshotState.unmatched
    ]_vars

\* C2, amended: for every invocation suspended at its update race, a confirmed
\* update does the following. If the received file is still on storage, it is
\* moved onto the baseline path, the result becomes Updated, the call returns
\* pass = true, `unmatched`, `matched` and `added` do not change, and `updated`
\* grows by exactly one unless reporting is suppressed, when it does not change
\* either. If the received file is gone, the rename throws: the call raises and
\* no counter and no file changes.
C2_ConfirmedUpdateAmended ==
  \A frame \in InWorkflow :
    frame.pc = "update" =>
      \A after \in { AfterUpdate(frame, "confirmed") }, file \in { ReceivedOf(frame) } :
         IF file \in receivedFiles
           THEN /\ after.frame.pc = "returned"
                /\ after.frame.pass
                /\ after.frame.result = Updated
                /\ after.receivedFiles = receivedFiles \ {file}
                /\ after.baselineFiles = baselineFiles \cup {file}
                /\ after.snapshotState.unmatched = snapshotState.unmatched
                /\ after.snapshotState.matched = snapshotState.matched
                /\ after.snapshotState.added = snapshotState.added
                /\ after.snapshotState.updated =
                     IF SKIP_REPORTING THEN snapshotState.updated
                                       ELSE snapshotState.updated + 1
           ELSE /\ after.frame.pc = "threw"
                /\ after.snapshotState = snapshotState
                /\ after.receivedFiles = receivedFiles
                /\ after.baselineFiles = baselineFiles

\* A confirmed update has been counted: the call returned an Updated result.
C2_Witness ==
  /\ settled.pc = "returned"
  /\ settled.updateAction
  /\ settled.result = Updated
  /\ snapshotState.updated >= 1

\* ---------------------------------------------------------------- C3
\* C3, as stated: an invocation is in the review workflow only if its own
\* comparison failed (a received file for its identifier being present).
C3_WorkflowOnlyAfterFailedComparison ==
  \A frame \in InWorkflow : frame.result = ComparedFail

\* ---------------------------------------------------------------- C4
\* C4, as stated: a call that finds no baseline in update mode `none` leaves the
\* whole RunState, the per-test invocation counters included, as it was.
C4_MissingBaselineLeavesRunState ==
  [][ (SettlesAtOnce /\ settled'.message = "not written") =>
        snapshotState' = snapshotState ]_vars

\* C4, amended: a call that finds no baseline in update mode `none` changes none
\* of matched, added, updated and unmatched; it adds one to the invocation
\* counter of its own test and leaves the counters of the other tests alone.
C4_MissingBaselineAmended ==
  \A args \in NextCalls :
    BaselineMissing(args) =>
      \A after \in { Call(args).snapshotState }, t \in { args.currentTestName } :
         /\ Counters(after) = Counters(snapshotState)
         /\ after._updateSnapshot = snapshotState._updateSnapshot
         /\ MapGet(after._counters, t) = MapGet(snapshotState._counters, t) + 1
         /\ \A u \in TestNames \ {t} :
              MapGet(after._counters, u) = MapGet(snapshotState._counters, u)

\* A call has returned the "not written" verdict and its invocation is recorded.
C4_Witness ==
  /\ settled.message = "not written"
  /\ snapshotState._updateSnapshot = "none"
  /\ Recorded(snapshotState._counters) >= 1

\* ---------------------------------------------------------------- C5
\* C5: a call that finds no baseline in update mode `none` returns a verdict
\* with pass = false: it does not throw, it does not call the comparison engine
\* and it does not enter the review workflow; no file is written.
C5_MissingBaselineIsFailingVerdict ==
  \A args \in NextCalls :
    BaselineMissing(args) =>
      \A after \in { Call(args) } :
         /\ after.frame.pc = "returned"
         /\ ~after.frame.pass
         /\ after.frame.error = "none"
         /\ ~after.frame.compared
         /\ ~after.frame.entered
         /\ after.baselineFiles = baselineFiles
         /\ after.receivedFiles = receivedFiles

\* A call has returned the failing "not written" verdict without a comparison.
C5_Witness ==
  /\ settled.pc = "returned"
  /\ settled.message = "not written"
  /\ ~settled.pass
  /\ ~settled.compared

\* ---------------------------------------------------------------- C6
\* C6, as stated: while the suppress-reporting flag is set, no step of the
\* matcher changes the RunState: neither the per-test invocation counters nor
\* any of the four outcome counters.
C6_SuppressedReportingLeavesRunState ==
  [][ SKIP_REPORTING => snapshotState' = snapshotState ]_vars

\* ---------------------------------------------------------------- C7
\* The counters after a passing comparison has been recorded.
MatchedOnce(state) ==
  IF SKIP_REPORTING
    THEN Counters(state)
    ELSE << state.matched + 1, state.added, state.updated, state.unmatched >>

\* C7: whenever a call classifies a passing Compared result, in its first
\* segment or after an update race that was not confirmed, the verdict has
\* pass = true, and `matched` grows by exactly one while added, updated and
\* unmatched stay as they were; with reporting suppressed no counter changes.
C7_PassingComparisonCountsAsMatched ==
  /\ \A args \in NextCalls :
       \A after \in { Call(args) } :
          (after.frame.pc = "returned" /\ after.frame.result = ComparedPass) =>
            /\ after.frame.pass
            /\ Counters(after.snapshotState) = MatchedOnce(snapshotState)
  /\ \A frame \in InWorkflow, outcome \in {"declined", "timeout"} :
       (frame.pc = "update" /\ frame.result = ComparedPass) =>
         \A after \in { AfterUpdate(frame, outcome) } :
            /\ after.frame.pc = "returned"
            /\ after.frame.pass
            /\ Counters(after.snapshotState) = MatchedOnce(snapshotState)

\* A passing comparison has been classified and counted.
C7_Witness ==
  /\ settled.pc = "returned"
  /\ settled.result = ComparedPass
  /\ settled.pass
  /\ ~SKIP_REPORTING
  /\ snapshotState.matched >= 1

\* ---------------------------------------------------------------- C8
NoCustomIdentifier == [type |-> "undefined", val |-> <<>>]

\* C8, as stated: with retries disabled and no custom identifier, the call of a
\* test that its invocation counter has just recorded (counter n) and the next
\* call of that test (counter n + 1) resolve to different identifiers and
\* address different baseline files.
C8_IdentifierUniquePerInvocation ==
  RETRY_TIMES = 0 =>
    \A t \in DOMAIN snapshotState._counters :
      LET this == CreateSnapshotIdentifier(0, t, NoCustomIdentifier, snapshotState,
                                           timesCalled).snapshotIdentifier
          next == CreateSnapshotIdentifier(0, t, NoCustomIdentifier,
                                           RecordInvocation(snapshotState, t),
                                           timesCalled).snapshotIdentifier
      IN /\ this # next
         /\ SnapshotPath(DescribeName(t), this) # SnapshotPath(DescribeName(t), next)

\* ---------------------------------------------------------------- C9
\* No custom identifier is supplied: undefined, or the empty literal, which
\* line 133 cannot tell from undefined.
NotSupplied(custom) ==
  custom.type = "undefined" \/ (custom.type = "string" /\ custom.val = <<>>)

\* The custom identifier is a function that returns the empty string.
ReturnsEmpty(custom) == custom.type = "function" /\ custom.val = << "empty" >>

\* C9: for a call that is not negated, identifier resolution throws exactly when
\* retryTimes >= 1 and either no custom identifier is supplied or the custom
\* function returns an empty result. A call whose resolution throws does not
\* call the comparison engine, does not change the retry ledger, changes none
\* of the four counters and writes no file. With retryTimes = 0 a function
\* returning an empty result resolves to the default identifier.
C9_ResolutionThrowsExactlyUnderRetries ==
  \A args \in NextCalls :
    ~args.isNot =>
      \A custom \in { args.customSnapshotIdentifier }, t \in { args.currentTestName },
         resolved \in { Resolution(args) }, after \in { Call(args) } :
         /\ resolved.threw <=>
              (RETRY_TIMES >= 1 /\ (NotSupplied(custom) \/ ReturnsEmpty(custom)))
         /\ resolved.threw =>
              /\ after.frame.pc = "threw"
              /\ after.frame.error = "identifier"
              /\ ~after.frame.compared
              /\ after.timesCalled = timesCalled
              /\ Counters(after.snapshotState) = Counters(snapshotState)
              /\ after.baselineFiles = baselineFiles
              /\ after.receivedFiles = receivedFiles
         /\ (RETRY_TIMES = 0 /\ ReturnsEmpty(custom)) =>
              /\ ~resolved.threw
              /\ after.frame.error # "identifier"
              /\ resolved.snapshotIdentifier =
                   DefaultIdentifier(t, MapGet(snapshotState._counters, t) + 1)

\* A call has thrown in identifier resolution under retries, the ledger empty.
C9_Witness ==
  /\ RETRY_TIMES >= 1
  /\ settled.pc = "threw"
  /\ settled.error = "identifier"
  /\ timesCalled = EmptyMap

\* ---------------------------------------------------------------- C10
\* C10: a negated call throws before any other work: the RunState with its
\* per-test invocation counters, the retry ledger and the files are unchanged,
\* no identifier is resolved and the comparison engine is not called.
C10_NegatedCallThrowsFirst ==
  \A args \in NextCalls :
    args.isNot =>
      \A after \in { Call(args) } :
         /\ after.frame.pc = "threw"
         /\ after.frame.error = "not"
         /\ after.frame.snapshotIdentifier = <<>>
         /\ ~after.frame.compared
         /\ after.snapshotState = snapshotState
         /\ after.timesCalled = timesCalled
         /\ after.baselineFiles = baselineFiles
         /\ after.receivedFiles = receivedFiles

\* A negated call has thrown, after an earlier call recorded its invocation.
C10_Witness ==
  /\ settled.pc = "threw"
  /\ settled.error = "not"
  /\ Recorded(snapshotState._counters) >= 1

\* ---------------------------------------------------------------- C11
\* C11, as stated: a call that is not a misuse never raises: the only errors a
\* call ends with are those of a negated call (line 195) and of an identifier
\* that cannot be resolved (lines 126 and 133); every other call returns a
\* verdict.
C11_OrdinaryCallReturnsVerdict ==
  settled.pc = "threw" => settled.error \in {"not", "identifier"}

C13_WorkflowTerminatesWithVerdict ==
  /\ (inv # EmptyBag) ~> (inv = EmptyBag)
  /\ [][ \A frame \in InWorkflow :
           SettlesFromWorkflow(frame) => settled'.pc = "returned" ]_vars

\* ---------------------------------------------------------------- C14
\* C14: for every invocation suspended at its update race whose comparison
\* failed, whatever its view race resolved to, an update prompt that is declined
\* or loses to its timer leaves every baseline and received file as it is,
\* classifies the failing result the comparison returned, and returns
\* pass = false with the failure message; the update prompt is stopped.
C14_DeclinedUpdateKeepsFailure ==
  \A frame \in InWorkflow, outcome \in {"declined", "timeout"} :
    (frame.pc = "update" /\ frame.result = ComparedFail) =>
      \A after \in { AfterUpdate(frame, outcome) } :
        /\ after.baselineFiles = baselineFiles
        /\ after.receivedFiles = receivedFiles
        /\ after.frame.pc = "returned"
        /\ after.frame.result = ComparedFail
        /\ ~after.frame.pass
        /\ after.frame.message = "failure"
        /\ after.frame.updateStopped

\* A call whose comparison failed went through the workflow, its update was
\* not confirmed, and it returned the failing verdict; its received file is
\* still there.
C14_Witness ==
  /\ settled.pc = "returned"
  /\ settled.entered
  /\ ~settled.updateAction
  /\ settled.updateStopped
  /\ settled.result = ComparedFail
  /\ ~settled.pass
  /\ settled.message = "failure"
  /\ receivedFiles # {}

\* ---------------------------------------------------------------- C15
\* C15: whenever no invocation is in flight, each of matched, added, updated and
\* unmatched equals the number of calls that have recorded that outcome, and the
\* invocation counter of each test equals the number of non-negated calls made
\* for it, however the segments of the invocations have interleaved.
C15_NoIncrementLost ==
  inv = EmptyBag =>
    /\ snapshotState.matched = tally.matched
    /\ snapshotState.added = tally.added
    /\ snapshotState.updated = tally.updated
    /\ snapshotState.unmatched = tally.unmatched
    /\ \A t \in TestNames :
         MapGet(snapshotState._counters, t) = MapGet(tally.calls, t)

\* Two invocations have been in flight at once, both have completed, and two
\* outcomes are recorded.
C15_Witness ==
  /\ inv = EmptyBag
  /\ tally.overlapped
  /\ ~SKIP_REPORTING
  /\ tally.matched + tally.added + tally.updated + tally.unmatched >= 2
  /\ settled.entered

\* ---------------------------------------------------------------- C16
\* The four counters of the RunState that record outcomes.
OutcomeCounters == {"matched", "added", "updated", "unmatched"}

\* The call that settles in this step, as checkResult saw it: the frame handed
\* back, with the identifier the call resolved. A call that settles in its
\* first segment under retries has just incremented the ledger entry of its
\* identifier.
SettlingNow ==
  IF \E frame \in InWorkflow : SettlesFromWorkflow(frame)
    THEN { [settled' EXCEPT !.snapshotIdentifier = frame.snapshotIdentifier] :
             frame \in { f \in InWorkflow : SettlesFromWorkflow(f) } }
  ELSE IF SettlesAtOnce
    THEN { [settled' EXCEPT !.snapshotIdentifier = k] :
             k \in IF Attempted = {} THEN { <<>> } ELSE Attempted }
  ELSE {}

\* In this step the RunState records one outcome of this kind, or none.
Records(kind) ==
  \A k \in OutcomeCounters :
    snapshotState'[k] = IF k = kind THEN snapshotState[k] + 1 ELSE snapshotState[k]

\* C16: the four counters are natural numbers and no step decreases one; a step
\* in which no call settles changes none; a step in which a call settles adds
\* exactly one to `added` for Added, to `updated` for Updated, to `matched` for a
\* passing comparison, to `unmatched` for a failing comparison with retries
\* disabled or the ledger entry of its identifier beyond retryTimes, and changes
\* none for a failing comparison while the entry is within retryTimes (nor when
\* the call raised, returned before the comparison, or reporting is
\* suppressed).
C16_CountersRecordOneOutcome ==
  [][ /\ \A k \in OutcomeCounters : snapshotState[k] \in Nat /\ snapshotState'[k] \in Nat
      /\ \A k \in OutcomeCounters : snapshotState'[k] >= snapshotState[k]
      /\ SettlingNow = {} => Records("none")
      /\ \A call \in SettlingNow : Records(Recording(call, timesCalled')) ]_vars

\* Under retries a failing comparison has returned with its ledger entry within
\* retryTimes and `unmatched` is still zero, after another call was recorded.
C16_Witness ==
  /\ RETRY_TIMES >= 1 /\ ~SKIP_REPORTING
  /\ settled.pc = "returned" /\ settled.compared /\ settled.result = ComparedFail
  /\ snapshotState.unmatched = 0
  /\ snapshotState.added + snapshotState.matched + snapshotState.updated >= 1

\* ---------------------------------------------------------------- C17
\* C17, as stated: every invocation that has reached the update prompt has
\* stopped its view prompt, however the view race ended.
C17_ViewPromptAlwaysStopped ==
  \A frame \in InWorkflow : frame.pc = "update" => frame.viewStopped

\* C17, amended: the view race always leads to the update prompt; view.stop()
\* is called exactly when the race did not resolve to true (the user declined or
\* the timer won), and when the user confirmed the viewer is launched instead
\* and view.stop() is not called.
C17_ViewPromptStoppedUnlessConfirmed ==
  /\ \A frame \in InWorkflow :
       frame.pc = "view" =>
         \A outcome \in RaceOutcomes, launched \in BOOLEAN :
           \A after \in { AfterView(frame, outcome, launched) } :
             /\ after.pc = "update"
             /\ after.viewStopped = (outcome # "confirmed")
             /\ after.opened = (outcome = "confirmed")
  /\ \A frame \in InWorkflow :
       frame.pc = "update" => frame.viewStopped = ~frame.viewAction

\* Two invocations wait at the update prompt: one whose user confirmed the view
\* prompt, which was not stopped, and one whose view prompt was stopped.
C17_Witness ==
  \E f, g \in InWorkflow :
    /\ f.pc = "update" /\ f.viewAction /\ f.opened /\ ~f.viewStopped
    /\ g.pc = "update" /\ ~g.viewAction /\ g.viewStopped /\ ~g.opened

\* ---------------------------------------------------------------- C18
\* C18: for every call that is not negated, made in any reachable state (other
\* invocations may be suspended in the workflow), the RunState the resolver is
\* given at line 199 already counts this call: the counter it reads at line 113
\* is the number of earlier non-negated calls of the same test plus one, the
\* default identifier is built from that number, and the first segment, which
\* runs from line 197 through the comparison without suspending, leaves the
\* counter at that number.
C18_CounterIncrementedBeforeResolution ==
  \A args \in NextCalls :
    ~args.isNot =>
      \A t \in { args.currentTestName } :
        \A n \in { MapGet(tally.calls, t) + 1 } :
          \A call \in { Call(args) } :
            /\ MapGet(RecordInvocation(snapshotState, t)._counters, t) = n
            /\ n = MapGet(snapshotState._counters, t) + 1
            /\ MapGet(call.snapshotState._counters, t) = n
            /\ (RETRY_TIMES = 0 /\ args.customSnapshotIdentifier = [type |-> "function", val |-> <<"empty">>])
                 => call.frame.snapshotIdentifier = DefaultIdentifier(t, n)

\* While the first invocation of a test is suspended in the workflow, a second
\* call of the same test has resolved the default identifier with counter 2 and
\* stored its baseline.
C18_Witness ==
  \E t \in TestNames :
    /\ inv # EmptyBag
    /\ \A frame \in InWorkflow : frame.describeName = DescribeName(t)
    /\ MapGet(snapshotState._counters, t) = 2
    /\ MapGet(tally.calls, t) = 2
    /\ SnapshotPath(DescribeName(t), DefaultIdentifier(t, 2)) \in baselineFiles

\* ---------------------------------------------------------------- C19
\* A part of the text message() returned.
Appended(part) == \E i \in DOMAIN rendered.text : rendered.text[i] = part

\* C19, as stated: the inline image is appended exactly when inline dumping was
\* requested and the terminal is recognized; otherwise the data-URI string is
\* appended if and only if dumpDiffToConsole was requested.
C19_DataUriOnlyForPlainDumping ==
  rendered.called =>
    /\ Appended("inline image") = InlineTaken(rendered.opts, rendered.env)
    /\ Appended("data-URI") =
         (~InlineTaken(rendered.opts, rendered.env) /\ rendered.opts.dumpDiffToConsole)

\* C19, amended: the inline image is appended exactly when inline dumping was
\* requested and the terminal is recognized; otherwise the data-URI string is
\* appended if and only if plain or inline dumping was requested, so inline
\* dumping on an unrecognized terminal falls back to the data-URI string. The
\* text never carries both.
C19_DataUriIsTheFallback ==
  rendered.called =>
    /\ Appended("inline image") =
         (rendered.opts.dumpInlineDiffToConsole
            /\ (rendered.env.TERM_PROGRAM \in {"iTerm.app", "WezTerm"}
                  \/ rendered.env.ENABLE_INLINE_DIFF))
    /\ Appended("data-URI") =
         (~Appended("inline image")
            /\ (rendered.opts.dumpDiffToConsole \/ rendered.opts.dumpInlineDiffToConsole))
    /\ ~(Appended("inline image") /\ Appended("data-URI"))

\* Only inline dumping was requested, the terminal is not recognized, and the
\* text ends with the data-URI string.
C19_Witness ==
  /\ rendered.called
  /\ rendered.opts.dumpInlineDiffToConsole /\ ~rendered.opts.dumpDiffToConsole
  /\ rendered.env.TERM_PROGRAM = "Apple_Terminal" /\ ~rendered.env.ENABLE_INLINE_DIFF
  /\ rendered.text[Len(rendered.text)] = "data-URI"

\* ---------------------------------------------------------------- C20
\* C20, as stated: with retries active (and reporting not suppressed), when an
\* invocation leaves the workflow with its failing comparison and no confirmed
\* update, `unmatched` grows by one exactly if the ledger entry its own
\* resolution wrote exceeds retryTimes, whatever other invocations of the same
\* identifier have added to the ledger since.
C20_OwnAttemptDecidesUnmatched ==
  [][ (RETRY_TIMES >= 1 /\ ~SKIP_REPORTING) =>
        \A frame \in InWorkflow :
          (/\ SettlesFromWorkflow(frame)
           /\ frame.result = ComparedFail
           /\ settled'.pc = "returned"
           /\ ~settled'.updateAction) =>
            /\ snapshotState'.unmatched \in { snapshotState.unmatched, snapshotState.unmatched + 1 }
            /\ (snapshotState'.unmatched = snapshotState.unmatched + 1)
                 = (frame.attempt > RETRY_TIMES)
    ]_vars

====
